---- MODULE Spec2Model ----
(***************************************************************************)
(* Model of examples/claude_test_generator.py: the ClaudeTestGenerator     *)
(* class (single-file pipeline, directory batch) over a small filesystem.  *)
(* Strings that the code inspects character by character (file names and   *)
(* glob patterns) are sequences of one-character strings; strings it only  *)
(* passes along (file contents, tool output, messages) are TLA+ strings.   *)
(***************************************************************************)
EXTENDS Integers, Sequences, FiniteSets, TLC

VARIABLES fs, pc, files, idx, results, summary, single, log, envSteps,
          probe, args, raisedExc, report, cli

vars == <<fs, pc, files, idx, results, summary, single, log, envSteps,
          probe, args, raisedExc, report, cli>>

(***************************************************************************)
(* Bounds of the model.                                                    *)
(***************************************************************************)
\* how many of the candidate files exist when the program starts
MaxFiles == 3
\* how many times another process removes a file while a batch runs
MaxEnvSteps == 1

(***************************************************************************)
(* Python values that travel through the result dictionaries.              *)
(***************************************************************************)
None == [t |-> "none", s |-> "", n |-> 0]
PyStr(x) == [t |-> "str", s |-> x, n |-> 0]
PyNum(k) == [t |-> "num", s |-> "", n |-> k]

\* Python truthiness of a value (None, 0 and "" are falsy)
Truthy(v) == (v.t = "num" /\ v.n # 0) \/ (v.t = "str" /\ v.s # "")

\* dict.get(key) with the default None
Get(d, k) == IF k \in DOMAIN d THEN d[k] ELSE None

EmptyDict == [k \in {} |-> None]

(***************************************************************************)
(* Names, paths (pathlib.Path as its sequence of parts) and glob patterns. *)
(***************************************************************************)
Proj == <<"p", "r", "o", "j">>
Pkg == <<"p", "k", "g">>
A_py == <<"a", ".", "p", "y">>
B_py == <<"b", ".", "p", "y">>
C_py == <<"c", ".", "p", "y">>
TestA_py == <<"t", "e", "s", "t", "_", "a", ".", "p", "y">>
TestB_py == <<"t", "e", "s", "t", "_", "b", ".", "p", "y">>
TestC_py == <<"t", "e", "s", "t", "_", "c", ".", "p", "y">>
TestPrefix == <<"t", "e", "s", "t", "_">>

Root == <<Proj>>
PkgDir == <<Proj, Pkg>>
SrcA == <<Proj, A_py>>
SrcB == <<Proj, B_py>>
SrcC == <<Proj, Pkg, C_py>>
TestA == <<Proj, TestA_py>>
TestB == <<Proj, TestB_py>>
TestC == <<Proj, Pkg, TestC_py>>

\* the files that may exist at start, the directories that always do
CandidateFiles == {SrcA, SrcB, SrcC, TestA}
Directories == {Root, PkgDir}
AllPaths == CandidateFiles \cup Directories \cup {TestB, TestC}

\* str.startswith
StartsWith(s, prefix) ==
    /\ Len(prefix) <= Len(s)
    /\ SubSeq(s, 1, Len(prefix)) = prefix

\* Path.name, Path.parent, Path.stem
PathName(p) == p[Len(p)]
PathParent(p) == SubSeq(p, 1, Len(p) - 1)
LastDot(name) ==
    LET dots == {j \in 1..Len(name) : name[j] = "."}
    IN  IF dots = {} THEN 0 ELSE CHOOSE j \in dots : \A k \in dots : k <= j
PathStem(p) ==
    LET name == PathName(p)
        j == LastDot(name)
    IN  IF 2 <= j /\ j <= Len(name) - 1 THEN SubSeq(name, 1, j - 1) ELSE name

\* fnmatch of one name against one pattern part ('*' and '?' wildcards)
RECURSIVE FnMatch(_, _)
FnMatch(pat, s) ==
    IF pat = <<>> THEN s = <<>>
    ELSE IF Head(pat) = "*"
         THEN FnMatch(Tail(pat), s) \/ (s # <<>> /\ FnMatch(pat, Tail(s)))
         ELSE /\ s # <<>>
              /\ (Head(pat) = "?" \/ Head(pat) = Head(s))
              /\ FnMatch(Tail(pat), Tail(s))

\* Path.match with a relative pattern: the pattern's parts are matched
\* against the last parts of the path
PathMatch(p, pattern) ==
    /\ Len(pattern) <= Len(p)
    /\ \A k \in 1..Len(pattern) :
          FnMatch(pattern[k], p[Len(p) - Len(pattern) + k])

StarPy == << <<"*", ".", "p", "y">> >>
DefaultExcludes ==
    << << <<"*", "t", "e", "s", "t", "*", ".", "p", "y">> >>,
       << <<"_", "_", "p", "y", "c", "a", "c", "h", "e", "_", "_">> >>,
       << <<".", "*">> >>,
       << <<"v", "e", "n", "v">> >>,
       << <<"e", "n", "v">> >>,
       << <<".", "e", "n", "v">> >> >>

(***************************************************************************)
(* The filesystem: every path is absent, a regular file or a directory.    *)
(***************************************************************************)
Absent == [kind |-> "none", content |-> ""]
File(c) == [kind |-> "file", content |-> c]
Dir == [kind |-> "dir", content |-> ""]

Exists(f, p) == p \in DOMAIN f /\ f[p].kind # "none"
IsFile(f, p) == p \in DOMAIN f /\ f[p].kind = "file"
IsDir(f, p) == p \in DOMAIN f /\ f[p].kind = "dir"

InitialContent(p) == IF p = TestA THEN "old tests" ELSE "def f(): return 1"

InitialFs(present) ==
    [p \in AllPaths |->
        IF p \in Directories THEN Dir
        ELSE IF p \in present THEN File(InitialContent(p))
        ELSE Absent]

(***************************************************************************)
(* Outcomes of the operating system and of the external tool: the inputs   *)
(* of one run of the single-file pipeline.                                 *)
(***************************************************************************)
\* what the tool prints when it exits with status zero
RawOutputs ==
    { "",
      "def test_x(): assert True",
      "{\"result\": \"import pytest\"}",
      "{\"result\": \"import pytest\", \"session_id\": \"s1\", \"total_cost_usd\": 3, \"duration_ms\": 7}",
      "{\"result\": \"\", \"total_cost_usd\": 2}",
      "{\"session_id\": \"s1\"}",
      "[]",
      "{\"result\": null}" }

Responses ==
    {[status |-> "ok", stdout |-> r] : r \in RawOutputs}
    \cup {[status |-> "nonzero", stdout |-> ""], [status |-> "spawn", stdout |-> ""]}

\* what the operating system answers to the stat behind Path.exists, to
\* read_text and to write_text
IoOutcomes ==
    [stat : {"ok", "error"}, read : {"ok", "denied"}, write : {"ok", "denied", "nospace"}]

Raise(kind, msg) == [ok |-> FALSE, exc |-> kind, msg |-> msg]

(***************************************************************************)
(* json.loads on the outputs above.                                        *)
(***************************************************************************)
Decoded(t, d) == [ok |-> TRUE, t |-> t, d |-> d]
JsonLoads(raw) ==
    CASE raw = "{\"result\": \"import pytest\"}" ->
            Decoded("dict", ("result" :> PyStr("import pytest")))
      [] raw = "{\"result\": \"import pytest\", \"session_id\": \"s1\", \"total_cost_usd\": 3, \"duration_ms\": 7}" ->
            Decoded("dict", ("result" :> PyStr("import pytest"))
                            @@ ("session_id" :> PyStr("s1"))
                            @@ ("total_cost_usd" :> PyNum(3))
                            @@ ("duration_ms" :> PyNum(7)))
      [] raw = "{\"result\": \"\", \"total_cost_usd\": 2}" ->
            Decoded("dict", ("result" :> PyStr("")) @@ ("total_cost_usd" :> PyNum(2)))
      [] raw = "{\"session_id\": \"s1\"}" ->
            Decoded("dict", ("session_id" :> PyStr("s1")))
      [] raw = "[]" -> Decoded("list", EmptyDict)
      [] raw = "{\"result\": null}" -> Decoded("dict", ("result" :> None))
      [] OTHER -> Raise("JSONDecodeError", "Expecting value")

(***************************************************************************)
(* ClaudeTestGenerator._parse_result                                       *)
(***************************************************************************)
\* data["result"]: the subscript of the decoded value
Subscript(data, key) ==
    IF data.t = "dict"
    THEN IF key \in DOMAIN data.d
         THEN [ok |-> TRUE, val |-> data.d[key]]
         ELSE Raise("KeyError", "'result'")
    ELSE Raise("TypeError", "list indices must be integers or slices, not str")

\* variant: the plain-text fallback fills the metadata with defaults
ParseResultDefaults(result) ==
    LET data == JsonLoads(result)
    IN  IF ~data.ok
        THEN [ok |-> TRUE,
              val |-> ("test_code" :> PyStr(result)) @@ ("session_id" :> PyStr(""))
                      @@ ("cost" :> PyNum(0)) @@ ("duration" :> PyNum(0))]
        ELSE LET code == Subscript(data, "result")
             IN  IF ~code.ok THEN code
                 ELSE [ok |-> TRUE,
                       val |-> ("test_code" :> code.val)
                               @@ ("session_id" :> Get(data.d, "session_id"))
                               @@ ("cost" :> Get(data.d, "total_cost_usd"))
                               @@ ("duration" :> Get(data.d, "duration_ms"))]

ParseResult(result) ==
    LET data == JsonLoads(result)
    IN  IF ~data.ok
        THEN \* except json.JSONDecodeError: fallback to plain text
             [ok |-> TRUE, val |-> ("test_code" :> PyStr(result))]
        ELSE LET code == Subscript(data, "result")
             IN  IF ~code.ok THEN code
                 ELSE [ok |-> TRUE,
                       val |-> ("test_code" :> code.val)
                               @@ ("session_id" :> Get(data.d, "session_id"))
                               @@ ("cost" :> Get(data.d, "total_cost_usd"))
                               @@ ("duration" :> Get(data.d, "duration_ms"))]

(***************************************************************************)
(* ClaudeTestGenerator._execute_claude_command: subprocess.run(check=True) *)
(***************************************************************************)
\* variant: subprocess.run without check=True
ExecuteUnchecked(resp) ==
    IF resp.status = "spawn"
    THEN Raise("FileNotFoundError", "[Errno 2] No such file or directory: 'claude'")
    ELSE [ok |-> TRUE, val |-> resp.stdout]

ExecuteClaudeCommand(resp) ==
    CASE resp.status = "ok" -> [ok |-> TRUE, val |-> resp.stdout]
      [] resp.status = "nonzero" ->
            Raise("CalledProcessError", "Command returned non-zero exit status 1.")
      [] OTHER ->
            Raise("FileNotFoundError", "[Errno 2] No such file or directory: 'claude'")

(***************************************************************************)
(* ClaudeTestGenerator._save_test_file                                     *)
(***************************************************************************)
\* variant: the prefix is put before every name
TestPathAlways(source_path) ==
    Append(PathParent(source_path), TestPrefix \o PathName(source_path))

\* variant: the test code is written over the source file itself
TestPathKept(source_path) == source_path

\* variant: nothing is excluded from the walk
DiscoveredAll(f, directory, pattern, exclude_patterns) ==
    {p \in DOMAIN f :
        /\ IsFile(f, p)
        /\ Len(p) > Len(directory)
        /\ SubSeq(p, 1, Len(directory)) = directory
        /\ PathMatch(p, pattern)}

TestPathFor(source_path) ==
    LET test_name == IF StartsWith(PathStem(source_path), TestPrefix)
                     THEN PathName(source_path)
                     ELSE TestPrefix \o PathName(source_path)
    IN  Append(PathParent(source_path), test_name)

\* variant: the data is converted with str() before it is written
WriteTextCoerced(f, p, data, outcome) ==
    IF IsDir(f, p) \/ ~IsDir(f, PathParent(p)) \/ outcome = "denied"
    THEN [ok |-> FALSE, exc |-> "OSError", msg |-> "[Errno 13] Permission denied",
          fs |-> f]
    ELSE IF outcome = "nospace"
    THEN [ok |-> FALSE, exc |-> "OSError", msg |-> "[Errno 28] No space left on device",
          fs |-> [f EXCEPT ![p] = File("")]]
    ELSE [ok |-> TRUE, exc |-> "", msg |-> "",
          fs |-> [f EXCEPT ![p] = File(IF data.t = "str" THEN data.s ELSE "None")]]

\* Path.write_text: the type check comes before the file is opened; a file
\* opened for writing is truncated before the data is written
WriteText(f, p, data, outcome) ==
    IF data.t # "str"
    THEN [ok |-> FALSE, exc |-> "TypeError", msg |-> "data must be str, not NoneType",
          fs |-> f]
    ELSE IF IsDir(f, p) \/ ~IsDir(f, PathParent(p)) \/ outcome = "denied"
    THEN [ok |-> FALSE, exc |-> "OSError", msg |-> "[Errno 13] Permission denied",
          fs |-> f]
    ELSE IF outcome = "nospace"
    THEN [ok |-> FALSE, exc |-> "OSError", msg |-> "[Errno 28] No space left on device",
          fs |-> [f EXCEPT ![p] = File("")]]
    ELSE [ok |-> TRUE, exc |-> "", msg |-> "",
          fs |-> [f EXCEPT ![p] = File(data.s)]]

SaveTestFile(f, source_path, test_code, outcome) ==
    LET test_path == TestPathFor(source_path)
        w == WriteText(f, test_path, test_code, outcome)
    IN  [ok |-> w.ok, exc |-> w.exc, msg |-> w.msg, fs |-> w.fs, val |-> test_path]

(***************************************************************************)
(* ClaudeTestGenerator.generate_tests_for_file: the result dictionary (or  *)
(* the exception that leaves the method), the filesystem it leaves, the    *)
(* stages it ran and the tool output it consumed.                          *)
(***************************************************************************)
Failure(file_path, error) ==
    [success |-> FALSE, source_path |-> file_path, error |-> error]

Success(file_path, test_path, parsed) ==
    [success |-> TRUE,
     source_path |-> file_path,
     test_path |-> test_path,
     test_code |-> parsed["test_code"],
     session_id |-> Get(parsed, "session_id"),
     cost |-> Get(parsed, "cost"),
     duration_ms |-> Get(parsed, "duration")]

NoResult == [success |-> FALSE, source_path |-> <<>>, error |-> ""]

\* Path.exists: a stat that fails for another reason than a missing entry
\* (EACCES on a parent directory, ENAMETOOLONG) is raised, not answered
PathExists(f, p, outcome) ==
    IF outcome = "error" THEN Raise("OSError", "[Errno 13] Permission denied")
    ELSE [ok |-> TRUE, val |-> Exists(f, p)]

\* Path.read_text
ReadText(f, p, outcome) ==
    IF IsDir(f, p) THEN Raise("IsADirectoryError", "[Errno 21] Is a directory")
    ELSE IF outcome = "denied" THEN Raise("PermissionError", "[Errno 13] Permission denied")
    ELSE [ok |-> TRUE, val |-> f[p].content]

Returned(result, f, stages, failedAt, status, stdout) ==
    [raised |-> FALSE, result |-> result, fs |-> f, stages |-> stages,
     failedAt |-> failedAt, status |-> status, stdout |-> stdout]

Propagated(f, stages, failedAt) ==
    [raised |-> TRUE, result |-> NoResult, fs |-> f, stages |-> stages,
     failedAt |-> failedAt, status |-> "none", stdout |-> ""]

GenerateTestsForFile(f, file_path, resp, io) ==
    LET exists == PathExists(f, file_path, io.stat)
    IN  IF ~exists.ok
        THEN Propagated(f, <<>>, "exists")
        ELSE IF ~exists.val
        THEN Returned(Failure(file_path, "File not found: <file_path>"),
                      f, <<>>, "exists", "none", "")
        ELSE
    LET source_code == ReadText(f, file_path, io.read)
    IN  IF ~source_code.ok
        THEN Returned(Failure(file_path, "Failed to read file: " \o source_code.msg),
                      f, <<"read">>, "read", "none", "")
        ELSE
    LET result == ExecuteClaudeCommand(resp)
    IN  IF ~result.ok
        THEN Returned(Failure(file_path, result.msg),
                      f, <<"read", "invoke">>, "invoke", resp.status, "")
        ELSE
    LET parsed == ParseResult(result.val)
    IN  IF ~parsed.ok
        THEN Returned(Failure(file_path, parsed.msg),
                      f, <<"read", "invoke", "parse">>, "parse", resp.status, result.val)
        ELSE
    LET saved == SaveTestFile(f, file_path, parsed.val["test_code"], io.write)
        stages == <<"read", "invoke", "parse", "write">>
    IN  IF ~saved.ok
        THEN Returned(Failure(file_path, saved.msg),
                      saved.fs, stages, "write", resp.status, result.val)
        ELSE Returned(Success(file_path, saved.val, parsed.val),
                      saved.fs, stages, "", resp.status, result.val)

\* the record of one call of generate_tests_for_file in the history
CallEvent(file_path, before, out) ==
    [ev |-> "call", path |-> file_path, raised |-> out.raised, result |-> out.result,
     stages |-> out.stages, failedAt |-> out.failedAt,
     status |-> out.status, stdout |-> out.stdout,
     changed |-> {q \in DOMAIN before : out.fs[q] # before[q]}]

SleepEvent == [ev |-> "sleep"]

(***************************************************************************)
(* ClaudeTestGenerator.generate_tests_for_directory                        *)
(***************************************************************************)
\* the part of a path below the directory the walk started from
IsUnder(p, directory) ==
    /\ Len(p) > Len(directory)
    /\ SubSeq(p, 1, Len(directory)) = directory
RelativeTo(p, directory) == SubSeq(p, Len(directory) + 1, Len(p))

\* Path.rglob(pattern): every entry below the directory, files and
\* directories alike, whose trailing parts match the pattern
RGlob(f, directory, pattern) ==
    {p \in DOMAIN f :
        /\ Exists(f, p)
        /\ IsUnder(p, directory)
        /\ PathMatch(RelativeTo(p, directory), pattern)}

\* variant: only the first exclusion pattern is looked at
IsExcludedFirst(file_path, exclude_patterns) ==
    exclude_patterns # <<>> /\ PathMatch(file_path, exclude_patterns[1])

\* any(file_path.match(pattern) for pattern in exclude_patterns)
IsExcluded(file_path, exclude_patterns) ==
    \E k \in 1..Len(exclude_patterns) : PathMatch(file_path, exclude_patterns[k])

\* variant: a source file whose test file exists is skipped
DiscoveredUntested(f, directory, pattern, exclude_patterns) ==
    {p \in RGlob(f, directory, pattern) :
        /\ ~IsExcluded(p, exclude_patterns)
        /\ IsFile(f, p)
        /\ ~Exists(f, TestPathFor(p))}

Discovered(f, directory, pattern, exclude_patterns) ==
    {p \in RGlob(f, directory, pattern) :
        ~IsExcluded(p, exclude_patterns) /\ IsFile(f, p)}

\* variant: the walk may yield a path more than once
OrderingsRepeated(S) == [1..Cardinality(S) -> S]

\* the orders in which a directory walk may yield a set of paths
Orderings(S) ==
    {s \in [1..Cardinality(S) -> S] : \A a, b \in 1..Cardinality(S) : s[a] = s[b] => a = b}

\* variant: results.insert(0, result)
RecordFirst(rs, result) == <<result>> \o rs

\* results.append(result)
Record(rs, result) == Append(rs, result)

\* variant: the accumulator is assigned instead of added to
RECURSIVE SumCostLast(_)
SumCostLast(rs) ==
    IF rs = <<>> THEN 0
    ELSE IF Truthy(Get(rs[Len(rs)], "cost")) THEN rs[Len(rs)].cost.n
    ELSE SumCostLast(SubSeq(rs, 1, Len(rs) - 1))

\* sum(r.get("cost", 0) for r in successful if r.get("cost"))
RECURSIVE SumCost(_)
SumCost(rs) ==
    IF rs = <<>> THEN 0
    ELSE (IF Truthy(Get(Head(rs), "cost")) THEN Head(rs).cost.n ELSE 0) + SumCost(Tail(rs))

\* variant: success judged by a non-empty test_code
SuccessfulByCode(rs) ==
    SelectSeq(rs, LAMBDA r : "test_code" \in DOMAIN r /\ Truthy(r.test_code))

\* [r for r in results if r["success"]] and [r for r in results if not r["success"]]
Successful(rs) == SelectSeq(rs, LAMBDA r : r.success)
Failed(rs) == SelectSeq(rs, LAMBDA r : ~r.success)

Summary(rs) ==
    [total |-> Len(rs),
     successful |-> Len(Successful(rs)),
     failed |-> Len(Failed(rs)),
     total_cost |-> SumCost(Successful(rs)),
     results |-> rs]

\* variant: the pause follows every file
SleepAfterEvery(i, n) == i < n

\* the loop's test before time.sleep(1); i is the 0-based index of the file
SleepAfter(i, n) == i < n - 1

NoSummary == [total |-> -1, successful |-> -1, failed |-> -1, total_cost |-> -1,
              results |-> <<>>]

NoArgs == [op |-> "none"]
\* no command line: the methods are called from a program
NoCli == [exit_code |-> -1]
NoReport == [total_files |-> -1]

\* the locals of a generator on which no method has been called yet; probed
\* is "none" before construction and "ok" once it has succeeded
Fresh(state, probed) ==
    /\ pc = state
    /\ files = <<>>
    /\ idx = 0
    /\ results = <<>>
    /\ summary = NoSummary
    /\ single = NoResult
    /\ log = <<>>
    /\ envSteps = 0
    /\ probe = probed
    /\ args = NoArgs
    /\ raisedExc = ""
    /\ report = NoReport
    /\ cli = NoCli

Init ==
    /\ \E present \in SUBSET CandidateFiles :
          /\ Cardinality(present) <= MaxFiles
          /\ fs = InitialFs(present)
    /\ Fresh("new", "none")

(***************************************************************************)
(* ClaudeTestGenerator.__init__ and _check_claude_installed                *)
(***************************************************************************)
\* what running "claude --version" comes to: exit status zero, a non-zero
\* exit status, no such program, or a program that may not be executed
ProbeOutcomes == {"ok", "nonzero", "missing", "denied"}

\* variant: the probe is run without check=True
CheckNotChecked(outcome) ==
    CASE outcome \in {"ok", "nonzero"} -> [ok |-> TRUE, exc |-> "", msg |-> ""]
      [] outcome = "missing" ->
            Raise("RuntimeError", "Claude Code CLI is not installed.")
      [] OTHER -> Raise("PermissionError", "[Errno 13] Permission denied: 'claude'")

CheckClaudeInstalled(outcome) ==
    CASE outcome = "ok" -> [ok |-> TRUE, exc |-> "", msg |-> ""]
      [] outcome \in {"nonzero", "missing"} ->
            \* except (subprocess.CalledProcessError, FileNotFoundError)
            Raise("RuntimeError", "Claude Code CLI is not installed.")
      [] OTHER -> Raise("PermissionError", "[Errno 13] Permission denied: 'claude'")

\* ClaudeTestGenerator(...): the object exists only if the probe passes
Construct ==
    /\ pc = "new"
    /\ \E outcome \in ProbeOutcomes :
          LET checked == CheckClaudeInstalled(outcome)
          IN  /\ probe' = outcome
              /\ pc' = IF checked.ok THEN "idle" ELSE "construct_failed"
              /\ raisedExc' = checked.exc
    /\ UNCHANGED <<fs, files, idx, results, summary, single, log, envSteps, args, report, cli>>

\* one call of generate_tests_for_file(file_path) from outside the class
SingleCall(file_path) ==
    /\ \E resp \in Responses, io \in IoOutcomes :
          LET out == GenerateTestsForFile(fs, file_path, resp, io)
          IN  /\ single' = out.result
              /\ fs' = out.fs
              /\ log' = Append(log, CallEvent(file_path, fs, out))
              /\ pc' = IF out.raised THEN "raised" ELSE "returned"
              /\ raisedExc' = IF out.raised THEN "OSError" ELSE raisedExc
    /\ UNCHANGED <<files, idx, results, summary, envSteps, probe, args, report, cli>>

\* generate_tests_for_file called directly (single-file mode)
GenerateSingle ==
    /\ pc = "idle"
    /\ \E p \in AllPaths \ {Root} : SingleCall(p)

\* the directories generate_tests_for_directory is called with: the
\* project, a sub-directory, and a path that is a file or does not exist
DirectoryArgs == {Root, PkgDir, SrcA}

\* variant: the test of the directory argument is left out
AnyRoot(f, directory) == TRUE

\* directory.is_dir()
ValidRoot(f, directory) == IsDir(f, directory)

\* generate_tests_for_directory up to the start of the loop: the test of
\* the argument (ValueError) and the discovery
StartDirectory(directory, pattern, exclude_patterns) ==
    /\ pc = "idle"
    /\ args' = [op |-> "directory", directory |-> directory, pattern |-> pattern,
                exclude_patterns |-> exclude_patterns]
    /\ idx' = 0
    /\ results' = <<>>
    /\ IF ~ValidRoot(fs, directory)
       THEN /\ pc' = "invalid"
            /\ raisedExc' = "ValueError"
            /\ files' = <<>>
       ELSE /\ pc' = "loop"
            /\ raisedExc' = raisedExc
            /\ files' \in Orderings(Discovered(fs, directory, pattern, exclude_patterns))
    /\ UNCHANGED <<fs, summary, single, log, envSteps, probe, report, cli>>

Discover == \E directory \in DirectoryArgs :
    StartDirectory(directory, StarPy, DefaultExcludes)

\* one iteration of the loop, up to the test before the pause; an exception
\* that leaves generate_tests_for_file leaves generate_tests_for_directory
ProcessFile ==
    /\ pc = "loop"
    /\ idx < Len(files)
    /\ \E resp \in Responses, io \in IoOutcomes :
          LET file_path == files[idx + 1]
              out == GenerateTestsForFile(fs, file_path, resp, io)
          IN  /\ fs' = out.fs
              /\ log' = Append(log, CallEvent(file_path, fs, out))
              /\ IF out.raised
                 THEN pc' = "raised" /\ idx' = idx /\ results' = results
                      /\ raisedExc' = "OSError"
                 ELSE /\ results' = Record(results, out.result)
                      /\ raisedExc' = raisedExc
                      /\ IF SleepAfter(idx, Len(files))
                         THEN pc' = "sleep" /\ idx' = idx
                         ELSE pc' = "loop" /\ idx' = idx + 1
    /\ UNCHANGED <<files, summary, single, envSteps, probe, args, report, cli>>

\* time.sleep(1), then the next iteration
Sleep ==
    /\ pc = "sleep"
    /\ log' = Append(log, SleepEvent)
    /\ idx' = idx + 1
    /\ pc' = "loop"
    /\ UNCHANGED <<fs, files, results, summary, single, envSteps, probe, args, raisedExc, report, cli>>

\* the loop is exhausted: the summary is built and returned
Summarise ==
    /\ pc = "loop"
    /\ idx >= Len(files)
    /\ summary' = Summary(results)
    /\ pc' = "done"
    /\ UNCHANGED <<fs, files, idx, results, single, log, envSteps, probe, args, raisedExc, report, cli>>

\* another process removes a discovered file that the batch has not reached
EnvRemove ==
    /\ pc \in {"loop", "sleep"}
    /\ envSteps < MaxEnvSteps
    /\ \E k \in 1..Len(files) :
          /\ k > Len(results)
          /\ IsFile(fs, files[k])
          /\ fs' = [fs EXCEPT ![files[k]] = Absent]
    /\ envSteps' = envSteps + 1
    /\ UNCHANGED <<pc, files, idx, results, summary, single, log, probe, args, raisedExc, report, cli>>

Next ==
    \/ Construct
    \/ GenerateSingle
    \/ Discover
    \/ ProcessFile
    \/ Sleep
    \/ Summarise
    \/ EnvRemove

Spec == Init /\ [][Next]_vars

(***************************************************************************)
(* Discovery over a project tree with hidden entries, cache and            *)
(* virtual-environment directories, tests of both naming conventions, a    *)
(* file that is no Python file and a directory whose name ends in .py.     *)
(***************************************************************************)
\* how many of the optional entries of the tree exist
MaxTreeFiles == 3

Star == << <<"*">> >>
AStar == << <<"a", "*">> >>

Venv == <<"v", "e", "n", "v">>
Env == <<"e", "n", "v">>
DotEnv == <<".", "e", "n", "v">>
PyCache == <<"_", "_", "p", "y", "c", "a", "c", "h", "e", "_", "_">>
DotGit == <<".", "g", "i", "t">>
Hid_py == <<".", "h", "i", "d", ".", "p", "y">>
V_py == <<"v", ".", "p", "y">>
M_py == <<"m", ".", "p", "y">>
H_py == <<"h", ".", "p", "y">>
D_py == <<"d", ".", "p", "y">>
BTest_py == <<"b", "_", "t", "e", "s", "t", ".", "p", "y">>
Notes_txt == <<"n", "o", "t", "e", "s", ".", "t", "x", "t">>

VenvDir == <<Proj, Venv>>
CacheDir == <<Proj, PyCache>>
GitDir == <<Proj, DotGit>>
HidPy == <<Proj, Hid_py>>
VenvV == <<Proj, Venv, V_py>>
CacheM == <<Proj, PyCache, M_py>>
GitH == <<Proj, DotGit, H_py>>
DPy == <<Proj, D_py>>
BTest == <<Proj, BTest_py>>
Notes == <<Proj, Notes_txt>>

\* the other place generate_coverage_report looks for the test of a.py
UnderTest_py == <<"_", "t", "e", "s", "t", ".", "p", "y">>
ADir == <<Proj, <<"a">> >>
ATest == <<Proj, <<"a">>, UnderTest_py>>

TreeDirectories == {Root, VenvDir, CacheDir, GitDir, ADir}
TreeFiles == {SrcA, TestA, SrcB, HidPy, VenvV, CacheM, GitH, BTest, Notes, ATest}
\* DPy, when it exists, is a directory
TreeOptional == TreeFiles \cup {DPy}
TreePaths == TreeDirectories \cup TreeOptional

TreeFs(present) ==
    [p \in TreePaths |->
        IF p \in TreeDirectories THEN Dir
        ELSE IF p \notin present THEN Absent
        ELSE IF p = DPy THEN Dir
        ELSE File(InitialContent(p))]

InitTree ==
    /\ \E present \in SUBSET TreeOptional :
          /\ Cardinality(present) <= MaxTreeFiles
          /\ fs = TreeFs(present)
    /\ Fresh("idle", "ok")

\* generate_tests_for_directory(directory, pattern, exclude_patterns) with
\* the default and with given patterns
DiscoverTree ==
    \E directory \in {Root, VenvDir}, pattern \in {StarPy, Star},
       exclude_patterns \in {DefaultExcludes, <<>>, <<AStar>>} :
        StartDirectory(directory, pattern, exclude_patterns)

NextDiscovery == DiscoverTree

SpecDiscovery == InitTree /\ [][NextDiscovery]_vars

(***************************************************************************)
(* _save_test_file over source files of many names: the test file of a     *)
(* source file is saved, then the test file of that test file.             *)
(***************************************************************************)
\* the longest middle part of a file name
MaxTailLen == 3

RECURSIVE Words(_, _)
Words(alphabet, n) ==
    IF n = 0 THEN {<<>>}
    ELSE LET shorter == Words(alphabet, n - 1)
         IN  shorter \cup {Append(w, c) : w \in shorter, c \in alphabet}

DotPy == <<".", "p", "y">>

\* file names: with and without the test prefix or a part of it, with and
\* without an extension, with dots and underscores in every place
FileNames ==
    {head \o tail \o ext :
        head \in {<<>>, TestPrefix, <<"t", "e", "s", "t">>},
        tail \in Words({"a", "_", "."}, MaxTailLen),
        ext \in {<<>>, DotPy}} \ {<<>>, <<".">>}

\* a directory that holds one file of the given name; the names its test
\* files can take are absent
NamingFs(parent, name) ==
    [p \in {parent} \cup {Append(parent, n) :
                             n \in {name, TestPrefix \o name,
                                    TestPrefix \o TestPrefix \o name}} |->
        IF p = parent THEN Dir
        ELSE IF p = Append(parent, name) THEN File("def f(): return 1")
        ELSE Absent]

InitNaming ==
    /\ \E parent \in {Root, PkgDir}, name \in FileNames : fs = NamingFs(parent, name)
    /\ Fresh("idle", "ok")

SaveEvent(source_path, saved) ==
    [ev |-> "save", source_path |-> source_path, ok |-> saved.ok,
     test_path |-> IF saved.ok THEN saved.val ELSE <<>>]

\* _save_test_file(source_path, test_code)
Save(source_path, next) ==
    \E test_code \in {PyStr("import pytest")}, outcome \in {"ok", "denied"} :
        LET saved == SaveTestFile(fs, source_path, test_code, outcome)
        IN  /\ fs' = saved.fs
            /\ log' = Append(log, SaveEvent(source_path, saved))
            /\ pc' = IF saved.ok THEN next ELSE "raised"
            /\ raisedExc' = saved.exc
            /\ UNCHANGED <<files, idx, results, summary, single, envSteps, probe, args,
                           report, cli>>

\* the test file of a source file is saved
SaveFirst ==
    /\ pc = "idle"
    /\ \E source_path \in DOMAIN fs : IsFile(fs, source_path) /\ Save(source_path, "saved")

\* the file just written is itself given as the source file
SaveAgain ==
    /\ pc = "saved"
    /\ Save(log[Len(log)].test_path, "resaved")

NextNaming == SaveFirst \/ SaveAgain

SpecNaming == InitNaming /\ [][NextNaming]_vars

(***************************************************************************)
(* generate_tests_for_file called again and again for one source file.     *)
(***************************************************************************)
\* how many times the file is generated for
MaxGenerations == 3

InitRegen ==
    /\ \E present \in {{SrcA}, {SrcA, TestA}, {SrcC}} : fs = InitialFs(present)
    /\ Fresh("idle", "ok")

\* one more call of generate_tests_for_file for the file of the first call
Regenerate ==
    /\ pc \in {"idle", "returned"}
    /\ Len(log) < MaxGenerations
    /\ \E p \in {SrcA, SrcC}, resp \in Responses, io \in IoOutcomes :
          LET out == GenerateTestsForFile(fs, p, resp, io)
          IN  /\ log # <<>> => p = log[1].path
              /\ single' = out.result
              /\ fs' = out.fs
              /\ log' = Append(log, CallEvent(p, fs, out))
              /\ pc' = IF out.raised THEN "raised" ELSE "returned"
              /\ raisedExc' = IF out.raised THEN "OSError" ELSE raisedExc
    /\ UNCHANGED <<files, idx, results, summary, envSteps, probe, args, report, cli>>

NextRegen == Regenerate

SpecRegen == InitRegen /\ [][NextRegen]_vars

(***************************************************************************)
(* ClaudeTestGenerator.generate_coverage_report                            *)
(***************************************************************************)
\* how many source files the flat project of the coverage scenario holds
NumSources == 10

\* str.endswith
EndsWith(s, suffix) ==
    /\ Len(suffix) <= Len(s)
    /\ SubSeq(s, Len(s) - Len(suffix) + 1, Len(s)) = suffix

\* Path.parts
Parts(p) == {p[k] : k \in 1..Len(p)}

SkippedParts == {PyCache, Venv, Env, DotEnv}

\* source_files as a set: what rglob("*.py") yields, less the filtered
CoverageSources(f, directory) ==
    {p \in RGlob(f, directory, StarPy) :
        /\ ~\E part \in SkippedParts : part \in Parts(p)
        /\ ~StartsWith(PathName(p), TestPrefix)
        /\ ~EndsWith(PathName(p), UnderTest_py)
        /\ ~StartsWith(PathName(p), <<".">>)}

\* variant: only the path <stem>/_test.py is looked at
HasTestsNested(f, source_file) ==
    Exists(f, PathParent(source_file) \o <<PathStem(source_file), UnderTest_py>>)

\* variant: the other place looked at is the sibling <stem>_test.py
HasTestsSuffix(f, source_file) ==
    \/ Exists(f, Append(PathParent(source_file), TestPrefix \o PathName(source_file)))
    \/ Exists(f, Append(PathParent(source_file), PathStem(source_file) \o UnderTest_py))

\* test_file.exists() or alt_test_file.exists()
HasTests(f, source_file) ==
    \/ Exists(f, Append(PathParent(source_file), TestPrefix \o PathName(source_file)))
    \/ Exists(f, PathParent(source_file) \o <<PathStem(source_file), UnderTest_py>>)

WithTests(f, source_files) == SelectSeq(source_files, LAMBDA p : HasTests(f, p))

\* variant: every source file is appended to files_without_tests
WithoutTestsAll(f, source_files) == source_files

WithoutTests(f, source_files) == SelectSeq(source_files, LAMBDA p : ~HasTests(f, p))

\* the percentage as an exact fraction; the code computes it in floating
\* point, whose rounding is not modelled
Over(a, b) == [num |-> a, den |-> b]
Times(q, k) == [num |-> q.num * k, den |-> q.den]
Zero == [num |-> 0, den |-> 1]

\* variant: the division is made whatever total is
PercentageUnguarded(with, total) == Times(Over(with, total), 100)

\* (len(files_with_tests) / total * 100) if total > 0 else 0
Percentage(with, total) == IF total > 0 THEN Times(Over(with, total), 100) ELSE Zero

\* the dictionary generate_coverage_report returns for the source files
\* in the order the walk gave them
GenerateCoverageReport(f, source_files) ==
    LET files_with_tests == WithTests(f, source_files)
        files_without_tests == WithoutTests(f, source_files)
        total == Len(source_files)
    IN  [total_files |-> total,
         files_with_tests |-> Len(files_with_tests),
         files_without_tests |-> Len(files_without_tests),
         coverage_percentage |-> Percentage(Len(files_with_tests), total),
         missing_tests |-> files_without_tests]

\* one order of a set
RECURSIVE SetToSeq(_)
SetToSeq(S) ==
    IF S = {} THEN <<>>
    ELSE LET x == CHOOSE y \in S : TRUE IN <<x>> \o SetToSeq(S \ {x})

\* the orders of a walk; the report's numbers do not depend on the order,
\* and for a large directory one order stands for all
WalkOrders(S) == IF Cardinality(S) <= MaxTreeFiles THEN Orderings(S) ELSE {SetToSeq(S)}

\* a flat project of NumSources source files, some with a test file
Letters == <<"c", "e", "f", "g", "i", "j", "k", "l", "m", "o", "q", "r", "u", "w", "x", "z">>
SourceNo(k) == <<Proj, <<Letters[k]>> \o DotPy>>
TestNo(k) == <<Proj, TestPrefix \o <<Letters[k]>> \o DotPy>>
FlatFs(tested) ==
    [p \in {Root} \cup {SourceNo(k) : k \in 1..NumSources}
                  \cup {TestNo(k) : k \in 1..NumSources} |->
        IF p = Root THEN Dir
        ELSE IF \E k \in 1..NumSources : p = SourceNo(k) THEN File("def f(): return 1")
        ELSE IF \E k \in tested : p = TestNo(k) THEN File("import pytest")
        ELSE Absent]

InitCoverage ==
    /\ \/ \E present \in SUBSET TreeOptional :
             /\ Cardinality(present) <= MaxTreeFiles
             /\ fs = TreeFs(present)
       \/ \E tested \in SUBSET (1..NumSources) : fs = FlatFs(tested)
    /\ Fresh("idle", "ok")

\* a path that does not exist
Nowhere == <<Proj, <<"n", "o", "n", "e">> >>

\* variant: an empty test file is created for every file without tests
AfterCoverageStubs(f, source_files) ==
    [p \in DOMAIN f |->
        IF \E k \in 1..Len(source_files) :
              /\ ~HasTests(f, source_files[k])
              /\ p = Append(PathParent(source_files[k]),
                            TestPrefix \o PathName(source_files[k]))
        THEN File("") ELSE f[p]]

\* the filesystem generate_coverage_report leaves: it only calls rglob and
\* exists
AfterCoverage(f, source_files) == f

\* generate_coverage_report(directory) up to its return or to the error
\* of an exists(); files keeps source_files
CoverageCall(directory, stat, returned) ==
    \E source_files \in WalkOrders(CoverageSources(fs, directory)) :
        /\ args' = [op |-> "coverage", directory |-> directory]
        /\ files' = source_files
        /\ fs' = AfterCoverage(fs, source_files)
        /\ IF stat = "error" /\ source_files # <<>>
           THEN /\ pc' = "raised"
                /\ raisedExc' = "OSError"
                /\ report' = report
           ELSE /\ pc' = returned
                /\ raisedExc' = raisedExc
                /\ report' = GenerateCoverageReport(fs, source_files)

CoverageReport ==
    /\ pc = "idle"
    /\ \E directory \in {Root, VenvDir, Nowhere}, stat \in {"ok", "error"} :
          CoverageCall(directory, stat, "reported")
    /\ UNCHANGED <<idx, results, summary, single, log, envSteps, probe, cli>>

NextCoverage == CoverageReport

SpecCoverage == InitCoverage /\ [][NextCoverage]_vars

(***************************************************************************)
(* A session on one generator: single-file generations, coverage reports   *)
(* and another process removing test files, in any order.                  *)
(***************************************************************************)
\* how many calls and removals a session holds
MaxSessionSteps == 3

InitSession ==
    /\ \E present \in SUBSET CandidateFiles :
          /\ Cardinality(present) <= MaxFiles
          /\ fs = InitialFs(present)
    /\ Fresh("idle", "ok")

\* the tool answers with test code or fails; the write succeeds or fails
\* after the file was opened
SessionResponses ==
    {[status |-> "ok", stdout |-> "{\"result\": \"import pytest\"}"],
     [status |-> "nonzero", stdout |-> ""]}
SessionIo ==
    {[stat |-> "ok", read |-> "ok", write |-> w] : w \in {"ok", "nospace"}}

CoverageEvent(directory) == [ev |-> "coverage", directory |-> directory]
RemoveEvent(p) == [ev |-> "remove", path |-> p]

\* generate_tests_for_file(file_path)
SessionGenerate ==
    /\ pc = "idle"
    /\ Len(log) < MaxSessionSteps
    /\ \E p \in {SrcA, SrcC}, resp \in SessionResponses, io \in SessionIo :
          LET out == GenerateTestsForFile(fs, p, resp, io)
          IN  /\ single' = out.result
              /\ fs' = out.fs
              /\ log' = Append(log, CallEvent(p, fs, out))
    /\ UNCHANGED <<pc, files, idx, results, summary, envSteps, probe, args, raisedExc,
                   report, cli>>

\* generate_coverage_report(directory)
SessionCoverage ==
    /\ pc = "idle"
    /\ Len(log) < MaxSessionSteps
    /\ \E directory \in {Root, PkgDir}, stat \in {"ok", "error"} :
          /\ CoverageCall(directory, stat, "idle")
          /\ log' = Append(log, CoverageEvent(directory))
    /\ UNCHANGED <<idx, results, summary, single, envSteps, probe, cli>>

\* another process removes a test file
SessionRemove ==
    /\ pc = "idle"
    /\ Len(log) < MaxSessionSteps
    /\ \E p \in {TestA, TestC} :
          /\ IsFile(fs, p)
          /\ fs' = [fs EXCEPT ![p] = Absent]
          /\ log' = Append(log, RemoveEvent(p))
    /\ UNCHANGED <<pc, files, idx, results, summary, single, envSteps, probe, args,
                   raisedExc, report, cli>>

NextSession == SessionGenerate \/ SessionCoverage \/ SessionRemove

SpecSession == InitSession /\ [][NextSession]_vars

(***************************************************************************)
(* main: the command line.                                                 *)
(***************************************************************************)
\* the path argument: a directory, a file that may exist, no entry at all
CliPaths == {Root, SrcA, Nowhere}

InitCli ==
    /\ \E present \in SUBSET CandidateFiles :
          /\ Cardinality(present) <= MaxFiles
          /\ fs = InitialFs(present)
    /\ Fresh("start", "none")

\* parser.parse_args()
ParseArgs ==
    /\ pc = "start"
    /\ \E path \in CliPaths, coverage \in BOOLEAN :
          cli' = [path |-> path, coverage |-> coverage, exit_code |-> -1]
    /\ pc' = "new"
    /\ UNCHANGED <<fs, files, idx, results, summary, single, log, envSteps, probe, args,
                   raisedExc, report>>

\* if args.coverage: generator.generate_coverage_report(args.path)
CliCoverage ==
    /\ pc = "idle"
    /\ cli.coverage
    /\ \E stat \in {"ok", "error"} : CoverageCall(cli.path, stat, "reported")
    /\ UNCHANGED <<idx, results, summary, single, log, envSteps, probe, cli>>

\* elif path.is_file(): generator.generate_tests_for_file(args.path)
CliFile ==
    /\ pc = "idle"
    /\ ~cli.coverage
    /\ IsFile(fs, cli.path)
    /\ SingleCall(cli.path)

\* elif path.is_dir(): generator.generate_tests_for_directory(args.path,
\* pattern=args.pattern), up to the start of the loop
CliDirectory ==
    /\ pc = "idle"
    /\ ~cli.coverage
    /\ ~IsFile(fs, cli.path)
    /\ IsDir(fs, cli.path)
    /\ StartDirectory(cli.path, StarPy, DefaultExcludes)

\* else: print the error and sys.exit(1)
CliNeither ==
    /\ pc = "idle"
    /\ ~cli.coverage
    /\ ~IsFile(fs, cli.path)
    /\ ~IsDir(fs, cli.path)
    /\ pc' = "neither"
    /\ cli' = [cli EXCEPT !.exit_code = 1]
    /\ UNCHANGED <<fs, files, idx, results, summary, single, log, envSteps, probe, args,
                   raisedExc, report>>

\* the exit status of the process: 1 from sys.exit(1), from the handler of
\* line 414 and from the exception that leaves the constructor, 0 when main
\* returns
ExitCode(state, result) ==
    CASE state \in {"construct_failed", "raised"} -> 1
      [] state = "returned" -> IF result.success THEN 0 ELSE 1
      [] OTHER -> 0

\* main ends
CliExit ==
    /\ pc \in {"construct_failed", "raised", "returned", "reported", "done"}
    /\ cli.exit_code = -1
    /\ cli' = [cli EXCEPT !.exit_code = ExitCode(pc, single)]
    /\ UNCHANGED <<fs, pc, files, idx, results, summary, single, log, envSteps, probe,
                   args, raisedExc, report>>

NextCli ==
    \/ ParseArgs
    \/ Construct
    \/ CliCoverage
    \/ CliFile
    \/ CliDirectory
    \/ CliNeither
    \/ ProcessFile
    \/ Sleep
    \/ Summarise
    \/ CliExit

SpecCli == InitCli /\ [][NextCli]_vars

(***************************************************************************)
(* Properties.                                                             *)
(***************************************************************************)
InSeq(x, s) == \E k \in 1..Len(s) : s[k] = x

\* the calls of generate_tests_for_file so far, and those that returned
Calls == SelectSeq(log, LAMBDA e : e.ev = "call")
ReturnedCalls == SelectSeq(Calls, LAMBDA e : ~e.raised)
NumSleeps == Len(SelectSeq(log, LAMBDA e : e.ev = "sleep"))

\* a batch (generate_tests_for_directory) is running or has ended
InBatch == pc \in {"loop", "sleep", "done"} \/ (pc = "raised" /\ files # <<>>)

\* a key of a result dictionary that is there and is not None
Present(r, k) == k \in DOMAIN r /\ r[k] # None

\* C1: the summary a batch returns has total = successful + failed and
\* total = length(results) = number of discovered files
C1_SummaryCounts ==
    pc = "done" =>
        /\ summary.total = summary.successful + summary.failed
        /\ summary.total = Len(summary.results)
        /\ summary.total = Len(files)

C1_Witness ==
    /\ pc = "done"
    /\ summary.total = 3
    /\ summary.successful = 2
    /\ summary.failed = 1
    /\ \E k \in 1..3 : summary.results[k].success /\ summary.results[k].test_code = PyStr("")

\* C2: no failure of one file's pipeline leaves generate_tests_for_file as
\* an error: every call returns a result record, and a batch that has
\* started ends with a summary holding one result per discovered file
C2_FailureIsolation ==
    /\ pc # "raised"
    /\ \A k \in 1..Len(Calls) : ~Calls[k].raised
    /\ pc = "done" => Len(summary.results) = Len(files)

\* C3: files are processed in discovery order and results keeps that order:
\* the k-th call and the k-th result are those of the k-th discovered file
C3_DiscoveryOrder ==
    InBatch =>
        /\ Len(results) <= Len(files)
        /\ \A k \in 1..Len(results) : results[k].source_path = files[k]
        /\ Len(Calls) <= Len(files)
        /\ \A k \in 1..Len(Calls) : Calls[k].path = files[k]
        /\ pc = "done" => summary.results = results /\ Len(results) = Len(files)

C3_Witness ==
    /\ pc = "done"
    /\ Len(files) = 3
    /\ summary.total = 3 /\ summary.successful = 2 /\ summary.failed = 1
    /\ summary.results[1].success
    /\ ~summary.results[2].success
    /\ summary.results[3].success
    /\ Calls[2].failedAt = "invoke"
    /\ summary.results[2].source_path = files[2]

\* C4: a result record is either a success with test_path and test_code and
\* no error, or a failure with error and neither test_path nor test_code
SuccessShape(r) ==
    /\ r.success
    /\ Present(r, "test_code")
    /\ "test_path" \in DOMAIN r
    /\ "error" \notin DOMAIN r
FailureShape(r) ==
    /\ ~r.success
    /\ "error" \in DOMAIN r
    /\ "test_path" \notin DOMAIN r
    /\ "test_code" \notin DOMAIN r
C4_ResultShape ==
    \A k \in 1..Len(ReturnedCalls) :
        LET r == ReturnedCalls[k].result
        IN  (SuccessShape(r) /\ ~FailureShape(r)) \/ (FailureShape(r) /\ ~SuccessShape(r))

C4_Witness ==
    /\ pc = "done"
    /\ \E j, k \in 1..Len(results) :
          /\ SuccessShape(results[j])
          /\ FailureShape(results[k])
          /\ Calls[k].failedAt = "write"

\* C5: a result with success = true has a non-empty test_code and a
\* non-empty test_path, whatever the tool printed with exit status zero
C5_SuccessNonEmpty ==
    \A k \in 1..Len(ReturnedCalls) :
        LET r == ReturnedCalls[k].result
        IN  r.success => /\ r.test_code.t = "str"
                         /\ r.test_code.s # ""
                         /\ r.test_path # <<>>

\* C6: the File Writer runs only after a zero-exit invocation whose output
\* was parsed; a failed invocation gives a failed result with a non-empty
\* error, no run of the File Writer and no change to any file
C6_WriterAfterParse ==
    \A k \in 1..Len(Calls) :
        LET e == Calls[k]
        IN  /\ InSeq("write", e.stages) =>
                  /\ e.stages = <<"read", "invoke", "parse", "write">>
                  /\ e.status = "ok"
                  /\ e.failedAt \in {"", "write"}
            /\ e.changed # {} => InSeq("write", e.stages)
            /\ e.status \in {"nonzero", "spawn"} =>
                  /\ ~e.raised
                  /\ ~e.result.success
                  /\ e.result.error # ""
                  /\ ~InSeq("write", e.stages)
                  /\ e.changed = {}

C6_Witness ==
    /\ Len(Calls) >= 2
    /\ Calls[1].status = "nonzero"
    /\ ~Calls[1].result.success
    /\ Calls[1].path = SrcA
    /\ fs[TestA] = File("old tests")
    /\ InSeq("write", Calls[2].stages)
    /\ Calls[2].changed # {}

\* C7: the Result Parser returns a record for every output of a zero-exit
\* invocation: no call fails at the parse stage
C7_ParserNeverFails ==
    \A k \in 1..Len(Calls) : Calls[k].failedAt # "parse"

\* C8: when the output does not decode as structured output, test_code is
\* the whole raw output and session_id, cost and duration_ms are absent
C8_Fallback ==
    \A k \in 1..Len(Calls) :
        LET e == Calls[k]
        IN  (e.status = "ok" /\ InSeq("parse", e.stages) /\ ~JsonLoads(e.stdout).ok) =>
                /\ e.failedAt # "parse"
                /\ e.result.success =>
                      /\ e.result.test_code = PyStr(e.stdout)
                      /\ ~Present(e.result, "session_id")
                      /\ ~Present(e.result, "cost")
                      /\ ~Present(e.result, "duration_ms")

C8_Witness ==
    \E k \in 1..Len(Calls) :
        /\ Calls[k].stdout = "def test_x(): assert True"
        /\ Calls[k].result.success
        /\ Calls[k].result.test_code = PyStr("def test_x(): assert True")
        /\ fs[Calls[k].result.test_path] = File("def test_x(): assert True")

\* C9: total_cost is the sum of cost over the successful results, an absent
\* cost counting as zero; failed results add nothing
CostOf(r) == IF r.success /\ r.cost.t = "num" THEN r.cost.n ELSE 0
RECURSIVE CostUpTo(_, _)
CostUpTo(rs, k) == IF k = 0 THEN 0 ELSE CostUpTo(rs, k - 1) + CostOf(rs[k])
C9_TotalCost ==
    pc = "done" =>
        /\ summary.total_cost = CostUpTo(summary.results, Len(summary.results))
        /\ summary.successful = 0 => summary.total_cost = 0

C9_Witness ==
    /\ pc = "done"
    /\ Len(results) = 3
    /\ summary.total_cost = 3
    /\ \E i, j, k \in 1..3 :
          /\ results[i].success /\ results[i].cost = PyNum(3)
          /\ results[j].success /\ results[j].cost = None
          /\ ~results[k].success

\* C10: a batch over n files pauses max(n-1, 0) times: once after each
\* file's result is recorded when another file follows, failed or not, and
\* not after the last file
C10_Pauses ==
    InBatch =>
        /\ \A k \in 1..Len(log) :
              log[k].ev = "sleep" => k > 1 /\ log[k - 1].ev = "call" /\ ~log[k - 1].raised
        /\ \A k \in 1..(Len(log) - 1) : log[k].ev = "call" => log[k + 1].ev = "sleep"
        /\ NumSleeps <= Len(results)
        /\ pc = "sleep" => Len(results) < Len(files)
        /\ pc = "done" =>
              /\ NumSleeps = (IF Len(files) > 0 THEN Len(files) - 1 ELSE 0)
              /\ log # <<>> => log[Len(log)].ev = "call"

C10_Witness ==
    /\ pc = "done"
    /\ Len(files) = 3
    /\ NumSleeps = 2
    /\ ~log[1].result.success
    /\ log[2].ev = "sleep"
    /\ log[3].result.success
    /\ log[4].ev = "sleep"
    /\ log[5].ev = "call"

\* nothing of a generation has happened: no call of generate_tests_for_file
\* (so no read, invocation or write), no discovery, no pause, no summary
NothingDone ==
    /\ log = <<>>
    /\ files = <<>>
    /\ results = <<>>
    /\ single = NoResult
    /\ summary = NoSummary

\* C14: when the probe of construction fails (tool missing or non-zero
\* exit) construction fails with the tool-not-installed error and nothing
\* is read, invoked or written; every generation call follows a probe that
\* succeeded
C14_ProbeFirst ==
    /\ probe \in {"nonzero", "missing"} =>
          /\ pc = "construct_failed"
          /\ raisedExc = "RuntimeError"
          /\ args = NoArgs
          /\ NothingDone
    /\ (log # <<>> \/ args # NoArgs) => probe = "ok"
    /\ pc = "new" => NothingDone

C14_Witness ==
    /\ probe = "nonzero"
    /\ pc = "construct_failed"
    /\ raisedExc = "RuntimeError"
    /\ IsFile(fs, SrcA)

\* C15: generate_tests_for_directory with a root that is not a directory
\* raises the invalid-input error before any discovery, read, invocation,
\* pause or write, and returns no summary
C15_InvalidRoot ==
    (args # NoArgs /\ ~IsDir(fs, args.directory)) =>
        /\ pc = "invalid"
        /\ raisedExc = "ValueError"
        /\ NothingDone

C15_Witness ==
    /\ pc = "invalid"
    /\ args.directory = SrcA
    /\ IsFile(fs, SrcA)
    /\ IsFile(fs, SrcB)

Range(s) == {s[k] : k \in 1..Len(s)}

\* discovery has just returned its list and nothing has been processed
JustDiscovered == pc = "loop" /\ args # NoArgs /\ log = <<>> /\ envSteps = 0

\* C11: the discovered files are exactly the regular files below the root
\* whose name matches the inclusion pattern and which match no exclusion
\* pattern, each once
C11_DiscoveredSet ==
    JustDiscovered =>
        /\ Range(files) =
              {p \in DOMAIN fs :
                  /\ IsFile(fs, p)
                  /\ IsUnder(p, args.directory)
                  /\ PathMatch(RelativeTo(p, args.directory), args.pattern)
                  /\ \A k \in 1..Len(args.exclude_patterns) :
                        ~PathMatch(p, args.exclude_patterns[k])}
        /\ Len(files) = Cardinality(Range(files))

C11_Witness ==
    /\ JustDiscovered
    /\ args.pattern = Star
    /\ args.exclude_patterns = <<AStar>>
    /\ IsFile(fs, SrcA)
    /\ IsDir(fs, DPy)
    /\ files = <<Notes>>

Dot == <<".">>
TestNamed(name) == FnMatch(<<"*", "t", "e", "s", "t", "*", ".", "p", "y">>, name)

\* C12: with the default exclusion patterns no discovered file has a test
\* name or a hidden name, and none lies inside a __pycache__, hidden, venv,
\* env or .env directory at any depth below the root
C12_DefaultExclusions ==
    (JustDiscovered /\ args.exclude_patterns = DefaultExcludes) =>
        \A k \in 1..Len(files) :
            LET rel == RelativeTo(files[k], args.directory)
                name == PathName(files[k])
            IN  /\ ~TestNamed(name)
                /\ ~StartsWith(name, Dot)
                /\ \A j \in 1..(Len(rel) - 1) :
                      /\ rel[j] \notin {PyCache, Venv, Env, DotEnv}
                      /\ ~StartsWith(rel[j], Dot)

\* C13: with the default patterns test_a.py is never discovered, and every
\* Python source file below the root that no default pattern excludes is
\* discovered, whether its test file exists or not
C13_DiscoveryIgnoresTests ==
    (JustDiscovered /\ args.pattern = StarPy /\ args.exclude_patterns = DefaultExcludes) =>
        /\ TestA \notin Range(files)
        /\ \A p \in DOMAIN fs :
              (/\ IsFile(fs, p)
               /\ IsUnder(p, args.directory)
               /\ FnMatch(<<"*", ".", "p", "y">>, PathName(p))
               /\ ~TestNamed(PathName(p))
               /\ ~StartsWith(PathName(p), Dot)) => p \in Range(files)

C13_Witness ==
    /\ JustDiscovered
    /\ args.directory = Root
    /\ args.pattern = StarPy
    /\ args.exclude_patterns = DefaultExcludes
    /\ IsFile(fs, SrcA) /\ IsFile(fs, TestA) /\ IsFile(fs, SrcB)
    /\ Exists(fs, TestPathFor(SrcA))
    /\ Range(files) = {SrcA, SrcB}

Saves == SelectSeq(log, LAMBDA e : e.ev = "save" /\ e.ok)

\* C16: the test file lies in the directory of its source file, and the
\* test file of a test file is that same file: naming it again changes
\* nothing
C16_NamingIdempotent ==
    \A k \in 1..Len(Saves) :
        /\ PathParent(Saves[k].test_path) = PathParent(Saves[k].source_path)
        /\ (k > 1 /\ Saves[k].source_path = Saves[k - 1].test_path) =>
              Saves[k].test_path = Saves[k].source_path

C16_Witness ==
    /\ pc = "resaved"
    /\ Len(Saves) = 2
    /\ Saves[1].source_path = <<Proj, Pkg, <<"a", ".", "a", ".", "p", "y">> >>
    /\ Saves[1].test_path = <<Proj, Pkg, TestPrefix \o <<"a", ".", "a", ".", "p", "y">> >>
    /\ Saves[2].source_path = Saves[1].test_path
    /\ Saves[2].test_path = Saves[1].test_path
    /\ IsFile(fs, Saves[2].test_path)

\* the calls that ended in success, by their place in the history
SuccessfulCalls == {k \in 1..Len(log) : log[k].ev = "call" /\ log[k].result.success}

\* C17: after any sequence of generations for one source file the test file
\* holds the test_code of the most recent successful generation; a failed
\* generation after it leaves the file as it was
C17_LastGenerationWins ==
    SuccessfulCalls # {} =>
        LET last == CHOOSE k \in SuccessfulCalls : \A j \in SuccessfulCalls : j <= k
            r == log[last].result
        IN  fs[r.test_path] = File(r.test_code.s)

\* generate_coverage_report has returned its dictionary
Reported == pc = "reported" /\ args.op = "coverage"

\* C18: in every report files_with_tests + files_without_tests =
\* total_files, and coverage_percentage is 0 when total_files is 0, as for
\* an empty root and for a root that does not exist
C18_CoverageCounts ==
    Reported =>
        /\ report.files_with_tests + report.files_without_tests = report.total_files
        /\ report.total_files >= 0
        /\ report.total_files = 0 => report.coverage_percentage = Zero
        /\ ~Exists(fs, args.directory) => report.total_files = 0

C18_Witness ==
    /\ Reported
    /\ args.directory = Nowhere
    /\ IsFile(fs, SrcA)
    /\ report.total_files = 0
    /\ report.coverage_percentage = Zero

\* a test file of the source file exists at one of the two places
Companion(p) ==
    \/ Exists(fs, Append(PathParent(p), TestPrefix \o PathName(p)))
    \/ Exists(fs, PathParent(p) \o <<PathStem(p), UnderTest_py>>)

\* C19: when total_files > 0 the percentage is files_with_tests * 100 /
\* total_files, and missing_tests holds exactly the counted source files
\* without a test file, each once, files_without_tests of them
C19_Percentage ==
    (Reported /\ report.total_files > 0) =>
        /\ report.coverage_percentage.den > 0
        /\ report.coverage_percentage.num * report.total_files =
              report.files_with_tests * 100 * report.coverage_percentage.den
        /\ Range(report.missing_tests) = {p \in Range(files) : ~Companion(p)}
        /\ Len(report.missing_tests) = Cardinality(Range(report.missing_tests))
        /\ Len(report.missing_tests) = report.files_without_tests

C19_Witness ==
    /\ Reported
    /\ report.total_files = 10
    /\ report.files_with_tests = 7
    /\ report.coverage_percentage.num = 70 * report.coverage_percentage.den
    /\ Len(report.missing_tests) = 3

\* C20: the counted source files are exactly the Python files below the
\* root that lie in no __pycache__, venv, env or .env directory and in no
\* hidden directory, are not hidden, and are not tests by prefix or suffix
C20_CountedSources ==
    Reported =>
        /\ report.total_files = Len(files)
        /\ Range(report.missing_tests) \subseteq Range(files)
        /\ Range(files) =
              {p \in DOMAIN fs :
                  /\ IsFile(fs, p)
                  /\ IsUnder(p, args.directory)
                  /\ EndsWith(PathName(p), DotPy)
                  /\ \A part \in Parts(PathParent(p)) :
                        part \notin SkippedParts /\ ~StartsWith(part, Dot)
                  /\ ~StartsWith(PathName(p), Dot)
                  /\ ~StartsWith(PathName(p), TestPrefix)
                  /\ ~EndsWith(PathName(p), UnderTest_py)}

\* C21: a counted source file has tests exactly when test_<name> exists
\* beside it or the path <stem>/_test.py exists in its directory; the
\* files without either are the ones listed as missing
C21_CompanionRule ==
    Reported =>
        /\ \A p \in Range(files) :
              p \in Range(report.missing_tests) <=>
                 ~(\/ IsFile(fs, Append(PathParent(p), TestPrefix \o PathName(p)))
                   \/ IsDir(fs, Append(PathParent(p), TestPrefix \o PathName(p)))
                   \/ IsFile(fs, PathParent(p) \o <<PathStem(p), UnderTest_py>>)
                   \/ IsDir(fs, PathParent(p) \o <<PathStem(p), UnderTest_py>>))
        /\ report.files_with_tests =
              Cardinality({p \in Range(files) : p \notin Range(report.missing_tests)})

C21_Witness ==
    /\ Reported
    /\ IsFile(fs, SrcA) /\ IsFile(fs, ATest) /\ ~Exists(fs, TestA)
    /\ IsFile(fs, SrcB) /\ ~Exists(fs, TestB)
    /\ report.files_with_tests = 1
    /\ report.missing_tests = <<SrcB>>

\* the step is a call of generate_coverage_report
CoverageStep ==
    /\ Len(log') = Len(log) + 1
    /\ log'[Len(log')].ev = "coverage"

\* C22: generate_coverage_report creates, changes and removes no file and
\* makes no generation call, so what a batch discovers and finds on disk
\* is the same before and after it
C22_CoverageFrame ==
    [][CoverageStep =>
          /\ fs' = fs
          /\ SubSeq(log', 1, Len(log)) = log
          /\ single' = single
          /\ \A directory \in Directories :
                Discovered(fs', directory, StarPy, DefaultExcludes)
                   = Discovered(fs, directory, StarPy, DefaultExcludes)]_vars

C22_Witness ==
    /\ Len(log) = 3
    /\ log[1].ev = "coverage"
    /\ log[2].ev = "call" /\ log[2].result.success /\ log[2].path = SrcA
    /\ log[3].ev = "coverage" /\ log[3].directory = Root
    /\ pc = "idle"
    /\ report.missing_tests = <<SrcB>>
    /\ fs[TestA] = File("import pytest")

\* the test file written by call k has not been removed since
NotRemovedSince(k) ==
    \A j \in (k + 1)..Len(log) :
        ~(log[j].ev = "remove" /\ log[j].path = log[k].result.test_path)

\* C26: a report made after a successful generation for a source file
\* without the test prefix does not list that file as missing, as long as
\* its test file has not been removed
C26_GeneratedIsCovered ==
    (pc = "idle" /\ log # <<>> /\ log[Len(log)].ev = "coverage") =>
        \A k \in 1..(Len(log) - 1) :
            (/\ log[k].ev = "call"
             /\ log[k].result.success
             /\ ~StartsWith(PathName(log[k].path), TestPrefix)
             /\ NotRemovedSince(k)) =>
                /\ log[k].path \notin Range(report.missing_tests)
                /\ log[k].result.test_path
                      = Append(PathParent(log[k].path), TestPrefix \o PathName(log[k].path))

C26_Witness ==
    /\ pc = "idle"
    /\ Len(log) = 3
    /\ log[1].ev = "coverage" /\ log[1].directory = PkgDir
    /\ log[2].ev = "call" /\ log[2].result.success /\ log[2].path = SrcC
    /\ TestC \in log[2].changed
    /\ log[3].ev = "coverage" /\ log[3].directory = PkgDir
    /\ files = <<SrcC>>
    /\ report.files_with_tests = 1
    /\ report.missing_tests = <<>>

\* how many times one call ran a stage
StageRuns(stage, stages) == Cardinality({j \in 1..Len(stages) : stages[j] = stage})

\* C23: a batch is sequential: every call is for a file of the list that
\* discovery returned, the k-th call starts when k-1 results are recorded,
\* no file is called for twice, a call invokes the tool at most once, a
\* failed invocation is followed by no second one, and a file that is
\* missing or unreadable causes no invocation
C23_Sequential ==
    InBatch =>
        /\ \A k \in 1..Len(Calls) :
              /\ k <= Len(files) /\ Calls[k].path = files[k]
              /\ StageRuns("invoke", Calls[k].stages) <= 1
              /\ Calls[k].failedAt \in {"exists", "read"} =>
                    StageRuns("invoke", Calls[k].stages) = 0
              /\ Calls[k].failedAt = "invoke" =>
                    /\ StageRuns("invoke", Calls[k].stages) = 1
                    /\ Calls[k].stages[Len(Calls[k].stages)] = "invoke"
              /\ Calls[k].raised => k = Len(Calls) /\ pc = "raised"
              /\ \A j \in 1..(k - 1) : Calls[j].path # Calls[k].path
        /\ Len(results) = Len(ReturnedCalls)
        /\ Len(Calls) - Len(results) \in {0, 1}
        /\ pc \in {"loop", "sleep"} => idx \in {Len(results) - 1, Len(results)}

C23_Witness ==
    /\ pc = "done"
    /\ Len(Calls) = 3
    /\ Calls[1].failedAt = "invoke" /\ Calls[1].status = "nonzero"
    /\ Calls[2].failedAt = "exists" /\ Calls[2].stages = <<>>
    /\ Calls[3].failedAt = "read" /\ Calls[3].stages = <<"read">>
    /\ envSteps = 1

\* C27: for a source file whose stem starts with test_ the test path is
\* the source path, and a successful generation puts the generated code in
\* the source file; for any other source file the test path differs from
\* the source path and the call leaves the source file as it was
C27_TestStemOverwrites ==
    \A k \in 1..Len(ReturnedCalls) :
        LET e == ReturnedCalls[k]
            r == e.result
        IN  IF StartsWith(PathStem(e.path), TestPrefix)
            THEN r.success =>
                    /\ r.test_path = e.path
                    /\ e.changed \subseteq {e.path}
                    /\ k = Len(Calls) => fs[e.path] = File(r.test_code.s)
            ELSE /\ e.path \notin e.changed
                 /\ r.success =>
                      /\ r.test_path # e.path
                      /\ PathParent(r.test_path) = PathParent(e.path)

C27_Witness ==
    /\ pc = "returned"
    /\ Len(Calls) = 1
    /\ Calls[1].path = TestA
    /\ Calls[1].result.success
    /\ Calls[1].result.test_path = TestA
    /\ Calls[1].changed = {TestA}
    /\ fs[TestA] = File("import pytest")

\* C25: in a batch with the default patterns the test paths of the
\* discovered files differ from each other and from every discovered file
C25_DistinctDestinations ==
    (JustDiscovered /\ args.pattern = StarPy /\ args.exclude_patterns = DefaultExcludes) =>
        \A i, j \in 1..Len(files) :
            LET name == PathName(files[i])
                dest == Append(PathParent(files[i]),
                               IF StartsWith(PathStem(files[i]), TestPrefix)
                               THEN name ELSE TestPrefix \o name)
            IN  /\ dest # files[j]
                /\ i # j => dest # TestPathFor(files[j])
                /\ dest = TestPathFor(files[i])

C25_Witness ==
    /\ JustDiscovered
    /\ args.directory = Root
    /\ args.pattern = StarPy
    /\ args.exclude_patterns = DefaultExcludes
    /\ IsFile(fs, TestA)
    /\ Range(files) = {SrcA, VenvV}

\* the single-file generation of the command line failed
CliSingleFailed == ~cli.coverage /\ IsFile(fs, cli.path) /\ ~single.success

\* the path argument is neither a file nor a directory
CliNeitherKind == ~IsFile(fs, cli.path) /\ ~IsDir(fs, cli.path)

\* C24: the exit code is non-zero exactly when the single-file generation
\* failed or the path is neither a file nor a directory, with or without
\* --coverage; a batch with failed files exits with zero
C24_ExitCode ==
    (cli.exit_code # -1 /\ probe = "ok" /\ pc # "raised") =>
        (cli.exit_code # 0 <=> (CliSingleFailed \/ CliNeitherKind))

====
